---- MODULE Spec2Model ----
(***************************************************************************)
(* Model of app.py, the Streamlit "Generador de Rastrero Hasbro".          *)
(*                                                                         *)
(* Python str values are TLA+ strings (TLC evaluates Len, \o and SubSeq on *)
(* them).  A spreadsheet cell that may be empty is a record                *)
(* [na |-> BOOLEAN, s |-> STRING]: na = TRUE is pandas' NaN / None.        *)
(* A float is a record [k, n, d]: an exact fraction n/d ("fin"), an        *)
(* infinity ("inf", sign in n) or NaN ("nan"); binary rounding of floats   *)
(* is not modelled.                                                        *)
(***************************************************************************)
EXTENDS Integers, Sequences, FiniteSets, TLC

VARIABLES
    cls,        \* one evaluation of calc_pasillo / calc_nivel
    conv,       \* one evaluation of factor() and of the division by it
    mov,        \* one movement through the derivation of its category
    state_in,   \* st.session_state.state_in  (dict: key -> value)
    ss_in,      \* st.session_state keys cat_sel, glosa_sel, lote_sel
    state_out,  \* st.session_state.state_out (dict: key -> value)
    ss_out,     \* st.session_state key picks_sel
    ui,         \* what the last pass did (messages, exception, files seen)
    agg         \* one stock table through its aggregation

vars == <<cls, conv, mov, state_in, ss_in, state_out, ss_out, ui, agg>>

(***************************************************************************)
(* Bounds of the model.                                                    *)
(***************************************************************************)
MaxHuellaLen == 5
MaxPad == 1

(***************************************************************************)
(* Python string primitives.                                               *)
(***************************************************************************)
Min(a, b) == IF a <= b THEN a ELSE b

\* s[a:b] with 0 <= a <= b: Python clamps a slice to the string
PySlice(s, a, b) == IF a >= Len(s) THEN "" ELSE SubSeq(s, a + 1, Min(b, Len(s)))

\* s[i], 0-based, for an index inside the string
CharAt(s, i) == SubSeq(s, i + 1, i + 1)

Digits == {"0", "1", "2", "3", "4", "5", "6", "7", "8", "9"}

\* str.isdigit() / str.isnumeric() of one character
IsDigit(c) == c \in Digits

\* int(c) of one decimal digit
DigitVal(c) ==
    CASE c = "0" -> 0 [] c = "1" -> 1 [] c = "2" -> 2 [] c = "3" -> 3
      [] c = "4" -> 4 [] c = "5" -> 5 [] c = "6" -> 6 [] c = "7" -> 7
      [] c = "8" -> 8 [] c = "9" -> 9

IsSpace(c) == c \in {" "}

RECURSIVE LStrip(_)
LStrip(s) ==
    IF Len(s) > 0 /\ IsSpace(CharAt(s, 0)) THEN LStrip(PySlice(s, 1, Len(s))) ELSE s

RECURSIVE RStrip(_)
RStrip(s) ==
    IF Len(s) > 0 /\ IsSpace(CharAt(s, Len(s) - 1))
    THEN RStrip(PySlice(s, 0, Len(s) - 1)) ELSE s

\* str.strip()
Strip(s) == RStrip(LStrip(s))

\* str.startswith(p)
StartsWith(s, p) == Len(s) >= Len(p) /\ PySlice(s, 0, Len(p)) = p

\* a cell holding the string s, and the empty cell (NaN / None)
Str(s) == [na |-> FALSE, s |-> s]

NA == [na |-> TRUE, s |-> ""]

\* Series.astype(str) of one cell: NaN becomes the text "nan"
AsTypeStr(c) == IF c.na THEN "nan" ELSE c.s

(***************************************************************************)
(* Section 6: the classifiers of Rastrero Out.                             *)
(***************************************************************************)
\* the marker for "the call raised IndexError" (no value is returned)
IndexError == "<IndexError>"

\* as calc_pasillo, with the tramo read two characters early, at u[6:9]
calc_pasillo_Tramo6(u) ==
    IF u.na \/ Len(u.s) < 11 THEN "Libre"
    ELSE IF PySlice(u.s, 3, 5) = "MR" THEN "Pasillo_1"
    ELSE LET tramo == PySlice(u.s, 6, 9)
         IN  IF tramo \in {"C06", "C07", "C08"} THEN "Pasillo_1"
             ELSE IF tramo \in {"C09", "C10"} THEN "Pasillo_2"
             ELSE IF tramo \in {"C11", "C12"} THEN "Pasillo_3"
             ELSE "Libre"

calc_pasillo(u) ==
    IF u.na \/ Len(u.s) < 11 THEN "Libre"
    ELSE IF PySlice(u.s, 3, 5) = "MR" THEN "Pasillo_1"
    ELSE LET tramo == PySlice(u.s, 8, 11)
         IN  IF tramo \in {"C06", "C07", "C08"} THEN "Pasillo_1"
             ELSE IF tramo \in {"C09", "C10"} THEN "Pasillo_2"
             ELSE IF tramo \in {"C11", "C12"} THEN "Pasillo_3"
             ELSE "Libre"

calc_nivel(u_out) ==
    IF u_out.na THEN ""
    ELSE IF Len(u_out.s) >= 6 /\ PySlice(u_out.s, 4, 6) = "MR" THEN "B"
    ELSE LET t == Strip(u_out.s)
         IN  IF Len(t) = 0 THEN IndexError      \* ""[-1]
             ELSE LET last == CharAt(t, Len(t) - 1)
                  IN  IF IsDigit(last) /\ DigitVal(last) <= 2 THEN "B" ELSE "A"

\* bd['Zona'] = bd['Pasillo'] + '_' + bd['Nivel']
Zona(u) == calc_pasillo(u) \o "_" \o calc_nivel(u)

(***************************************************************************)
(* Floats: exact fractions, infinities and NaN.                            *)
(***************************************************************************)
RECURSIVE GCD(_, _)
GCD(a, b) == IF b = 0 THEN a ELSE GCD(b, a % b)

Abs(a) == IF a < 0 THEN -a ELSE a

\* the fraction n/d (d > 0) in lowest terms
Fin(n, d) == LET g == GCD(Abs(n), d)
             IN  [k |-> "fin", n |-> n \div g, d |-> d \div g]

Num(n) == Fin(n, 1)

PosInf == [k |-> "inf", n |-> 1, d |-> 0]

NegInf == [k |-> "inf", n |-> -1, d |-> 0]

NaN == [k |-> "nan", n |-> 0, d |-> 0]

IsFinite(x) == x.k = "fin"

\* x / y of two floats as numpy divides them: x/0 is +-inf, 0/0 is NaN
FDiv(x, y) ==
    IF x.k = "nan" \/ y.k = "nan" THEN NaN
    ELSE IF x.k = "inf" /\ y.k = "inf" THEN NaN
    ELSE IF x.k = "inf" THEN (IF y.n >= 0 THEN x ELSE [x EXCEPT !.n = -x.n])
    ELSE IF y.k = "inf" THEN Num(0)
    ELSE IF y.n = 0 THEN (IF x.n = 0 THEN NaN ELSE IF x.n > 0 THEN PosInf ELSE NegInf)
    ELSE IF y.n > 0 THEN Fin(x.n * y.d, x.d * y.n)
    ELSE Fin(-(x.n * y.d), x.d * (-y.n))

FAdd(x, y) ==
    IF x.k = "nan" \/ y.k = "nan" THEN NaN
    ELSE IF x.k = "inf" /\ y.k = "inf" THEN (IF x.n = y.n THEN x ELSE NaN)
    ELSE IF x.k = "inf" THEN x
    ELSE IF y.k = "inf" THEN y
    ELSE Fin(x.n * y.d + y.n * x.d, x.d * y.d)

FNeg(x) == IF x.k = "nan" THEN x ELSE [x EXCEPT !.n = -x.n]

FSub(x, y) == FAdd(x, FNeg(y))

\* x == y: NaN equals nothing
FEq(x, y) == x.k # "nan" /\ y.k # "nan" /\ x = y

\* x >= y: any comparison with NaN is False
FGe(x, y) ==
    IF x.k = "nan" \/ y.k = "nan" THEN FALSE
    ELSE IF x.k = "inf" THEN (x.n > 0 \/ x = y)
    ELSE IF y.k = "inf" THEN y.n < 0
    ELSE x.n * y.d >= y.n * x.d

\* Series.fillna(v) of one value
FillNa(x, v) == IF x.k = "nan" THEN v ELSE x

(***************************************************************************)
(* Section 3: the unit converter, factor().                                *)
(***************************************************************************)
\* the index just after the longest run of digits that starts at index i
RECURSIVE DigitRunEnd(_, _)
DigitRunEnd(s, i) ==
    IF i < Len(s) /\ IsDigit(CharAt(s, i)) THEN DigitRunEnd(s, i + 1) ELSE i

\* as MatchAt, for the pattern C(\d+)U that knows no fractional part
MatchAt_IntOnly(s, i) ==
    IF i >= Len(s) \/ CharAt(s, i) # "C" THEN ""
    ELSE LET j == DigitRunEnd(s, i + 1)
         IN  IF j > i + 1 /\ j < Len(s) /\ CharAt(s, j) = "U"
             THEN PySlice(s, i + 1, j) ELSE ""

\* the group captured by a match of C(\d+(?:\.\d+)?)U that starts at index
\* i, "" when the pattern does not match there (a capture is never empty)
MatchAt(s, i) ==
    IF i >= Len(s) \/ CharAt(s, i) # "C" THEN ""
    ELSE LET j == DigitRunEnd(s, i + 1)
         IN  IF j = i + 1 THEN ""
             ELSE LET k == IF j < Len(s) /\ CharAt(s, j) = "."
                           THEN DigitRunEnd(s, j + 1) ELSE j
                  IN  IF k > j + 1 /\ k < Len(s) /\ CharAt(s, k) = "U"
                      THEN PySlice(s, i + 1, k)
                      ELSE IF j < Len(s) /\ CharAt(s, j) = "U"
                      THEN PySlice(s, i + 1, j)
                      ELSE ""

\* str.extract(r'C(\d+(?:\.\d+)?)U', expand=False): the capture of the
\* leftmost match at or after index i, "" for no match (pandas gives NaN)
RECURSIVE ExtractFrom(_, _)
ExtractFrom(s, i) ==
    IF i >= Len(s) THEN ""
    ELSE IF MatchAt(s, i) # "" THEN MatchAt(s, i)
    ELSE ExtractFrom(s, i + 1)

Extract(s) == ExtractFrom(s, 0)

\* int() of a string of decimal digits ("" is 0)
RECURSIVE ParseDigits(_)
ParseDigits(t) ==
    IF Len(t) = 0 THEN 0
    ELSE 10 * ParseDigits(PySlice(t, 0, Len(t) - 1)) + DigitVal(CharAt(t, Len(t) - 1))

RECURSIVE Pow10(_)
Pow10(n) == IF n = 0 THEN 1 ELSE 10 * Pow10(n - 1)

\* float() of a capture "ddd" or "ddd.ddd"; NaN for no capture
ToFloat(t) ==
    IF t = "" THEN NaN
    ELSE LET p  == DigitRunEnd(t, 0)
             fr == PySlice(t, p + 1, Len(t))
         IN  Fin(ParseDigits(PySlice(t, 0, p)) * Pow10(Len(fr)) + ParseDigits(fr),
                 Pow10(Len(fr)))

\* as factor, with the missing factor filled with 0 instead of 1
factor_FillZero(c) == FillNa(ToFloat(Extract(AsTypeStr(c))), Num(0))

\* factor(s) of line 131, for one cell of the series
factor(c) == FillNa(ToFloat(Extract(AsTypeStr(c))), Num(1))

\* the factor() local to preparar_stock: to_numeric(errors='coerce')
preparar_stock_factor(c) == FillNa(ToFloat(Extract(AsTypeStr(c))), Num(1))

\* df['Cajas_x'] = df['Cant. Pick. UMS'] / df['Factor'], for one row
Cajas(units, f) == FDiv(units, f)

(***************************************************************************)
(* Idle values of the variables a specification does not use.              *)
(***************************************************************************)
EmptyDict == [x \in {} |-> 0]

ClsIdle == [u |-> NA, pasillo |-> "", nivel |-> "", zona |-> "", fase |-> "idle"]

ConvIdle == [huella |-> NA, via |-> "", units |-> Num(0), factor |-> NaN,
             cajas |-> NaN, fase |-> "idle"]

MovIdle == [motivo |-> "", orig |-> NA, dest |-> "", categoria |-> "", fase |-> "idle"]

AggIdle == [via |-> "", rows |-> <<>>, perm |-> <<>>, t1 |-> <<>>, t2 |-> <<>>,
            t3 |-> <<>>, fase |-> "idle"]

\* no workbook is offered for download
NoDescarga == [ofrecida |-> FALSE, hojas |-> EmptyDict, picks |-> <<>>]

UiIdle == [modulo |-> "", avisos |-> {}, presentes |-> {}, exc |-> "", gen |-> "",
           descarga |-> NoDescarga]

(***************************************************************************)
(* The classifiers on their own: one row of bd through lines 555-557.      *)
(***************************************************************************)
BaseUbicaciones ==
    {"B4.RE.C06.A01", "B4.MR.C06.001", "B4.RE.A.C06.01", "B4.RE.A.C09.03",
     "B4.RE.A.C11.02", "B04.MR..C10.5", "B4.RE.A.C12.0X", "B4.RE.A.C07.09",
     "B4.RE.A.C05.00", "B4.RE.A.C08.04", "B4.RE.A.C10.12"}

Prefixes(s) == {PySlice(s, 0, n) : n \in 0..Len(s)}

RECURSIVE Spaces(_)
Spaces(n) == IF n = 0 THEN "" ELSE " " \o Spaces(n - 1)

\* every prefix of a base location (the empty string included), with up to
\* MaxPad blanks on either side, and the missing value
UbicacionInputs ==
    {NA} \cup
    {Str(Spaces(a) \o p \o Spaces(b)) :
        a \in 0..MaxPad, b \in 0..MaxPad,
        p \in UNION {Prefixes(x) : x \in BaseUbicaciones}}

InitClasificador ==
    /\ cls \in {[ClsIdle EXCEPT !.u = c, !.fase = "arg"] : c \in UbicacionInputs}
    /\ conv = ConvIdle /\ mov = MovIdle
    /\ agg = AggIdle
    /\ state_in = EmptyDict /\ ss_in = EmptyDict
    /\ state_out = EmptyDict /\ ss_out = EmptyDict
    /\ ui = UiIdle

\* bd['Pasillo'] = bd['Ubicacion_out'].apply(calc_pasillo)
AplicarCalcPasillo ==
    /\ cls.fase = "arg"
    /\ cls' = [cls EXCEPT !.pasillo = calc_pasillo(cls.u), !.fase = "pasillo"]
    /\ UNCHANGED <<conv, mov, state_in, ss_in, state_out, ss_out, ui, agg>>

\* bd['Nivel'] = bd['Ubicacion_out'].apply(calc_nivel): the call may raise
AplicarCalcNivel ==
    /\ cls.fase = "pasillo"
    /\ cls' = [cls EXCEPT !.nivel = calc_nivel(cls.u),
                          !.fase = IF calc_nivel(cls.u) = IndexError
                                   THEN "raised" ELSE "nivel"]
    /\ UNCHANGED <<conv, mov, state_in, ss_in, state_out, ss_out, ui, agg>>

\* bd['Zona'] = bd['Pasillo'] + '_' + bd['Nivel']
ConcatenarZona ==
    /\ cls.fase = "nivel"
    /\ cls' = [cls EXCEPT !.zona = cls.pasillo \o "_" \o cls.nivel, !.fase = "zona"]
    /\ UNCHANGED <<conv, mov, state_in, ss_in, state_out, ss_out, ui, agg>>

NextClasificador == AplicarCalcPasillo \/ AplicarCalcNivel \/ ConcatenarZona

SpecClasificador == InitClasificador /\ [][NextClasificador]_vars

(***************************************************************************)
(* The unit converter on its own: one row through factor() and the         *)
(* division, on the picking path (495-496), the stock path (528-529) and   *)
(* in preparar_stock (102-103).                                            *)
(***************************************************************************)
HuellaAlphabet == {"C", "U", ".", "0", "2"}

RECURSIVE StringsOfLen(_)
StringsOfLen(n) ==
    IF n = 0 THEN {""}
    ELSE {t \o c : t \in StringsOfLen(n - 1), c \in HuellaAlphabet}

NamedHuellas ==
    {"PALCS36U", "PALC36U", "PAL80C12U", "C36UC2U", "C007U", "c36u", "nan",
     "C1.5.2U", "CC3.25UU"}

HuellaInputs ==
    {NA} \cup {Str(t) : t \in NamedHuellas}
         \cup {Str(t) : t \in UNION {StringsOfLen(n) : n \in 0..MaxHuellaLen}}

UnitInputs == {Num(0), Num(5), Num(360)}

InitFactor ==
    /\ conv \in {[ConvIdle EXCEPT !.huella = h, !.fase = "arg"] : h \in HuellaInputs}
    /\ cls = ClsIdle /\ mov = MovIdle
    /\ agg = AggIdle
    /\ state_in = EmptyDict /\ ss_in = EmptyDict
    /\ state_out = EmptyDict /\ ss_out = EmptyDict
    /\ ui = UiIdle

\* df['Factor'] = factor(df['Huella'])             (line 495)
FactorPicking ==
    /\ conv.fase = "arg"
    /\ conv' = [conv EXCEPT !.factor = factor(conv.huella),
                            !.via = "picking", !.fase = "factor"]
    /\ UNCHANGED <<cls, mov, state_in, ss_in, state_out, ss_out, ui, agg>>

\* df2['Factor'] = factor(df2['Huella'])           (line 528)
FactorStock ==
    /\ conv.fase = "arg"
    /\ conv' = [conv EXCEPT !.factor = factor(conv.huella),
                            !.via = "stock", !.fase = "factor"]
    /\ UNCHANGED <<cls, mov, state_in, ss_in, state_out, ss_out, ui, agg>>

\* df['Factor'] = factor(df['Huella'])             (line 102)
FactorPrepararStock ==
    /\ conv.fase = "arg"
    /\ conv' = [conv EXCEPT !.factor = preparar_stock_factor(conv.huella),
                            !.via = "preparar_stock", !.fase = "factor"]
    /\ UNCHANGED <<cls, mov, state_in, ss_in, state_out, ss_out, ui, agg>>

\* df['Cajas_x'] = df['Cant. Pick. UMS'] / df['Factor']   (496, 529, 103)
Dividir ==
    /\ conv.fase = "factor"
    /\ \E q \in UnitInputs :
          conv' = [conv EXCEPT !.units = q, !.cajas = Cajas(q, conv.factor),
                               !.fase = "cajas"]
    /\ UNCHANGED <<cls, mov, state_in, ss_in, state_out, ss_out, ui, agg>>

NextFactor == FactorPicking \/ FactorStock \/ FactorPrepararStock \/ Dividir

SpecFactor == InitFactor /\ [][NextFactor]_vars

(***************************************************************************)
(* Tables: a DataFrame is the sequence of its rows, a row a record.        *)
(***************************************************************************)
\* the characters of the model in code-point order
AsciiOrder == " .0123456789ABCDEFGHIJKLMNOPQRSTUVWXYZ_abcdefghijklmnopqrstuvwxyz"

CharCode(c) == CHOOSE i \in 1..Len(AsciiOrder) : SubSeq(AsciiOrder, i, i) = c

\* a < b for two Python strings
RECURSIVE StrLt(_, _)
StrLt(a, b) ==
    IF Len(b) = 0 THEN FALSE
    ELSE IF Len(a) = 0 THEN TRUE
    ELSE IF CharAt(a, 0) = CharAt(b, 0)
         THEN StrLt(PySlice(a, 1, Len(a)), PySlice(b, 1, Len(b)))
         ELSE CharCode(CharAt(a, 0)) < CharCode(CharAt(b, 0))

\* a < b for two tuples of strings of the same length (a compound group key)
RECURSIVE TupleLt(_, _)
TupleLt(a, b) ==
    IF Len(a) = 0 THEN FALSE
    ELSE IF a[1] = b[1] THEN TupleLt(Tail(a), Tail(b))
    ELSE StrLt(a[1], b[1])

\* sorted(S) of a set of strings
RECURSIVE Sorted(_)
Sorted(S) ==
    IF S = {} THEN <<>>
    ELSE LET m == CHOOSE x \in S : \A y \in S : x = y \/ StrLt(x, y)
         IN  <<m>> \o Sorted(S \ {m})

\* the group keys of a groupby on several columns, in groupby's sorted order
RECURSIVE SortedTuples(_)
SortedTuples(S) ==
    IF S = {} THEN <<>>
    ELSE LET m == CHOOSE x \in S : \A y \in S : x = y \/ TupleLt(x, y)
         IN  <<m>> \o SortedTuples(S \ {m})

Range(f) == {f[i] : i \in DOMAIN f}

\* the rows of a table that satisfy a mask, in the table's order
Filas(t, Mask(_)) == SelectSeq(t, Mask)

\* Series.sum() of a column: NaN is skipped, an empty sum is 0
RECURSIVE FSum(_)
FSum(xs) ==
    IF Len(xs) = 0 THEN Num(0)
    ELSE IF xs[1].k = "nan" THEN FSum(Tail(xs))
    ELSE FAdd(xs[1], FSum(Tail(xs)))

\* dict operations
Has(d, key) == key \in DOMAIN d

Put(d, key, v) == [x \in DOMAIN d \cup {key} |-> IF x = key THEN v ELSE d[x]]

SetDefault(d, key, v) == IF Has(d, key) THEN d ELSE Put(d, key, v)

\* an uploader that holds no file, and one that holds a file
NoFile == [present |-> FALSE, name |-> "", rows |-> <<>>]

File(name, rows) == [present |-> TRUE, name |-> name, rows |-> rows]

(***************************************************************************)
(* Section 5: Rastrero In.                                                 *)
(***************************************************************************)
InvalidRefs == {"PICKING-TRASLADO", "PICKING-SURTIDO", "PICKING-PTS-SURTIDO",
                "LPN-TRASLADO"}

\* as Categoria, with the prefix looked for in the destination location
Categoria_PorDestino(r) ==
    IF r.motivo = "CAMBIO DE ESTADO" THEN "Regul_Interna/Cambio_Estado"
    ELSE IF r.motivo = "CAMBIO DE UBICACION"
         THEN IF StartsWith(r.dest, "B4.RE") THEN "Almacenamiento" ELSE "Mov_Interno"
    ELSE ""

\* df['Categoria'] of one movement (lines 226-232): the three masks are
\* applied in turn to a column that starts empty
Categoria(r) ==
    LET mask_alma == /\ r.motivo = "CAMBIO DE UBICACION"
                     /\ ~r.orig.na /\ StartsWith(r.orig.s, "B4.RE")
        mask_mov  == r.motivo = "CAMBIO DE UBICACION" /\ ~mask_alma
        mask_est  == r.motivo = "CAMBIO DE ESTADO"
        c0 == ""
        c1 == IF mask_alma THEN "Almacenamiento" ELSE c0
        c2 == IF mask_mov THEN "Mov_Interno" ELSE c1
    IN  IF mask_est THEN "Regul_Interna/Cambio_Estado" ELSE c2

\* one row of T_Mov_Internos from one row of the file (lines 225-233)
MovProcesado(r) ==
    [glosa |-> IF r.glosa.na THEN "Movimiento desde DWEB" ELSE r.glosa.s,
     motivo |-> r.motivo, orig |-> r.orig, dest |-> r.dest, art |-> r.art,
     cant |-> r.cant, lote |-> r.lote,
     categoria |-> Categoria(r),
     concat_mi |-> r.dest \o r.art]

\* the table of the movements file (lines 221-235)
RECURSIVE ProcesarMovimientos(_)
ProcesarMovimientos(rows) ==
    IF Len(rows) = 0 THEN <<>>
    ELSE IF rows[1].ref1 \in InvalidRefs \/ rows[1].um = "UNIDAD"
         THEN ProcesarMovimientos(Tail(rows))
         ELSE <<MovProcesado(rows[1])>> \o ProcesarMovimientos(Tail(rows))

\* the column of a table as a sequence
Col(t, F(_)) == [i \in 1..Len(t) |-> F(t[i])]

\* T_Stock_I of the stock file (lines 241-255): one row per
\* (Ubicacion, Cod. Articulo, UM), Cant. Final summed
AgruparStockIn(rows) ==
    LET keys == SortedTuples({<<r.ubic, r.art, r.um>> : r \in Range(rows)})
        CantOf(r) == r.cant
        row(key) ==
            LET Mask(r) == <<r.ubic, r.art, r.um>> = key
            IN  [ubic |-> key[1], art |-> key[2], um |-> key[3],
                 stock_final |-> FSum(Col(Filas(rows, Mask), CantOf)),
                 concat_st |-> key[1] \o key[2]]
    IN  [i \in 1..Len(keys) |-> row(keys[i])]

\* as FiltrarSeleccion, keeping the values that are no longer offered
FiltrarSeleccion_SinDescartar(sel, opts) == IF sel # {} THEN sel ELSE opts

\* [g for g in sel if g in opts] or opts   (lines 279, 286)
FiltrarSeleccion(sel, opts) == IF sel \cap opts # {} THEN sel \cap opts ELSE opts

GlosaOpts(df_all, cat_sel) ==
    {r.glosa : r \in {x \in Range(df_all) : x.categoria \in cat_sel}}

LoteOpts(df_all, cat_sel, glosa_sel) ==
    {r.lote : r \in {x \in Range(df_all) :
                        x.categoria \in cat_sel /\ x.glosa \in glosa_sel}}

\* the session's selections after the filter block (lines 263-287)
Filtros(df_all, ss) ==
    LET s1 == SetDefault(ss, "cat_sel", {r.categoria : r \in Range(df_all)})
        s2 == SetDefault(s1, "glosa_sel", {r.glosa : r \in Range(df_all)})
        s3 == SetDefault(s2, "lote_sel", {r.lote : r \in Range(df_all)})
        s4 == Put(s3, "glosa_sel",
                  FiltrarSeleccion(s3["glosa_sel"], GlosaOpts(df_all, s3["cat_sel"])))
    IN  Put(s4, "lote_sel",
            FiltrarSeleccion(s4["lote_sel"],
                             LoteOpts(df_all, s4["cat_sel"], s4["glosa_sel"])))

\* df_f (lines 290-294)
MovFiltrados(df_all, ss) ==
    LET Mask(r) == /\ r.categoria \in ss["cat_sel"]
                   /\ r.glosa \in ss["glosa_sel"]
                   /\ r.lote \in ss["lote_sel"]
    IN  Filas(df_all, Mask)

\* state['T_Stock_I'].groupby('Concat_ST')['Stock Final_1'].sum() looked up
\* by the left merge and fillna({'Stock Final_1': 0})   (lines 386-387)
StockFinalDe(t_stock, clave) ==
    LET Mask(r) == r.concat_st = clave
        StockOf(r) == r.stock_final
    IN  IF \E r \in Range(t_stock) : r.concat_st = clave
        THEN FSum(Col(Filas(t_stock, Mask), StockOf))
        ELSE Num(0)

\* as CruceFila, with the opening stock always the difference
CruceFila_SinRegu(df_mov, t_stock, clave) ==
    LET Mask(r) == r.concat_mi = clave
        CantOf(r) == r.cant
        g == Filas(df_mov, Mask)
        ingresos == FSum(Col(g, CantOf))
        final == StockFinalDe(t_stock, clave)
    IN  [clave |-> clave, ubic |-> g[1].dest, prod |-> g[1].art, um |-> "CJ",
         ingresos |-> ingresos, final |-> final,
         inicial |-> FSub(final, ingresos),
         obs |-> IF FGe(final, ingresos) THEN "" ELSE "Regu", check |-> ""]

\* one row of cruce (lines 374-391)
CruceFila(df_mov, t_stock, clave) ==
    LET Mask(r) == r.concat_mi = clave
        CantOf(r) == r.cant
        g == Filas(df_mov, Mask)
        ingresos == FSum(Col(g, CantOf))
        final == StockFinalDe(t_stock, clave)
        ge_mask == FGe(final, ingresos)
    IN  [clave |-> clave, ubic |-> g[1].dest, prod |-> g[1].art, um |-> "CJ",
         ingresos |-> ingresos, final |-> final,
         inicial |-> IF ge_mask THEN FSub(final, ingresos) ELSE final,
         obs |-> IF ge_mask THEN "" ELSE "Regu", check |-> ""]

\* cruce before the level is added (lines 374-391)
Cruce(df_mov, t_stock) ==
    LET keys == Sorted({r.concat_mi : r \in Range(df_mov)})
    IN  [i \in 1..Len(keys) |-> CruceFila(df_mov, t_stock, keys[i])]

\* the last character of the stripped location, when it is a digit
\* (lines 393-395); the empty string stands for NaN
LastDigit(ubic) ==
    LET u == Strip(ubic)
    IN  IF Len(u) > 0 /\ IsDigit(CharAt(u, Len(u) - 1))
        THEN CharAt(u, Len(u) - 1) ELSE ""

\* last_digit.astype(int) raises ValueError when a value is NaN (line 397)
NivelRaises(cruce) == \E r \in Range(cruce) : LastDigit(r.ubic) = ""

\* cruce['Nivel_I'] of one row (lines 396-399)
Nivel_I(ubic) ==
    LET d == LastDigit(ubic)
    IN  IF d # "" /\ DigitVal(d) <= 2 THEN "Bajo"
        ELSE IF d # "" /\ DigitVal(d) >= 3 THEN "Alto"
        ELSE ""

\* build_r(cruce[cruce['Nivel_I'] == nivel])   (lines 404-419)
build_r(cruce, nivel) ==
    LET Mask(r) == Nivel_I(r.ubic) = nivel
        out(r) == [ubic |-> r.ubic, prod |-> r.prod, um |-> r.um,
                   inicial |-> r.inicial, ingresos |-> r.ingresos,
                   final |-> r.final, check |-> r.check, obs |-> r.obs]
    IN  Col(Filas(cruce, Mask), out)

\* what a pass reports: the status messages, the slots that held a file,
\* the exception that ended it, the outcome of the Generar button
Ui(modulo, avisos, presentes, exc, gen) ==
    [modulo |-> modulo, avisos |-> avisos, presentes |-> presentes,
     exc |-> exc, gen |-> gen, descarga |-> NoDescarga]

\* a run in progress: the two session dictionaries and what it reports
\* so far; df_f is the local variable of that name
Run(modulo, st, ss) ==
    [st |-> st, ss |-> ss, df_f |-> <<>>, ui |-> Ui(modulo, {}, {}, "", "")]

Aviso(c, msg) == [c EXCEPT !.ui.avisos = @ \cup {msg}]

Presente(c, slot) == [c EXCEPT !.ui.presentes = @ \cup {slot}]

\* lines 208-212: the template's bytes are stored at every run that sees it
GuardarPlantillaIn(c, tmpl_file) ==
    IF tmpl_file.present
    THEN Presente([c EXCEPT !.st = Put(@, "tmpl_in_bytes", tmpl_file.name)], "tmpl_in")
    ELSE c

\* lines 215-236: the movements file is read once, when its name is right
LeerMovimientos(c, mov_file) ==
    IF ~mov_file.present THEN c
    ELSE IF Has(c.st, "T_Mov_Internos") THEN Presente(c, "mov_int")
    ELSE IF ~StartsWith(mov_file.name, "ReportConsultasMovimientosInternos")
    THEN Aviso(Presente(c, "mov_int"), "Archivo Movimientos Internos incorrecto")
    ELSE Aviso(Presente([c EXCEPT !.st = Put(@, "T_Mov_Internos",
                                             ProcesarMovimientos(mov_file.rows))],
                        "mov_int"),
               "Movimientos Internos listos")

\* lines 239-256: the stock file is read once
LeerStockIn(c, stock_file) ==
    IF ~stock_file.present THEN c
    ELSE IF Has(c.st, "T_Stock_I") THEN Presente(c, "stock_in")
    ELSE Aviso(Presente([c EXCEPT !.st = Put(@, "T_Stock_I",
                                             AgruparStockIn(stock_file.rows))],
                        "stock_in"),
               "Stock Interno listo")

\* lines 259-294: the filters and df_f
FiltrarMovimientos(c) ==
    IF ~Has(c.st, "T_Mov_Internos") THEN c
    ELSE [c EXCEPT !.ss = Filtros(c.st["T_Mov_Internos"], c.ss),
                   !.df_f = MovFiltrados(c.st["T_Mov_Internos"],
                                         Filtros(c.st["T_Mov_Internos"], c.ss))]

\* cruce with its column Nivel_I (lines 396-401)
ConNivel(r) ==
    [clave |-> r.clave, ubic |-> r.ubic, prod |-> r.prod, um |-> r.um,
     ingresos |-> r.ingresos, final |-> r.final, inicial |-> r.inicial,
     obs |-> r.obs, check |-> r.check, nivel_i |-> Nivel_I(r.ubic)]

\* lines 401-425: what a generation stores
GuardarTablasIn(st, cruce, df_mov) ==
    Put(Put(Put(Put(st,
        "T_Cruce_In", Col(cruce, ConNivel)),
        "R_Nivel_Bajo", build_r(cruce, "Bajo")),
        "R_Nivel_Alto", build_r(cruce, "Alto")),
        "T_Lotes_Filtrados", Sorted({r.lote : r \in Range(df_mov)}))

\* lines 371-425 for a cruce already joined
GenerarConCruce(c, cruce) ==
    IF NivelRaises(cruce)
    THEN [c EXCEPT !.ui.exc = "ValueError", !.ui.gen = "error"]
    ELSE [c EXCEPT !.st = GuardarTablasIn(@, cruce, c.df_f), !.ui.gen = "ok"]

\* lines 313-425: the controls, shown once both tables are stored, and the
\* click on "Generar Rastrero In"
GenerarIn(c, gen_clicked) ==
    IF ~(Has(c.st, "T_Stock_I") /\ Has(c.st, "T_Mov_Internos") /\ gen_clicked)
    THEN c
    ELSE IF Len(c.df_f) = 0
    THEN [Aviso(c, "No registros para filtros seleccionados") EXCEPT !.ui.gen = "vacio"]
    ELSE GenerarConCruce(c, Cruce(c.df_f, c.st["T_Stock_I"]))

\* one run of rastrero_in() (lines 191-436): the session after it
RastreroIn(st0, ss0, mov_file, stock_file, tmpl_file, gen_clicked) ==
    GenerarIn(
        FiltrarMovimientos(
            LeerStockIn(
                LeerMovimientos(
                    GuardarPlantillaIn(Run("in", st0, ss0), tmpl_file),
                    mov_file),
                stock_file)),
        gen_clicked)

(***************************************************************************)
(* The category of a movement on its own (lines 226-232).                  *)
(***************************************************************************)
MotivoInputs ==
    {"CAMBIO DE UBICACION", "CAMBIO DE ESTADO", "AJUSTE DE INVENTARIO",
     "cambio de ubicacion"}

OrigenInputs ==
    {NA} \cup {Str(x) : x \in {"B4.RE.A.C06.01", "B4.MR.A.C09.01", "B4.RE", "B4.R",
                               "b4.re.x", " B4.RE.1", ""}}

DestinoInputs == {"B4.RE.A.C07.02", "B4.MR.A.C09.01", "B4.PK.01"}

InitCategoria ==
    /\ mov \in {[MovIdle EXCEPT !.motivo = m, !.orig = o, !.dest = d, !.fase = "arg"] :
                    m \in MotivoInputs, o \in OrigenInputs, d \in DestinoInputs}
    /\ cls = ClsIdle /\ conv = ConvIdle
    /\ agg = AggIdle
    /\ state_in = EmptyDict /\ ss_in = EmptyDict
    /\ state_out = EmptyDict /\ ss_out = EmptyDict
    /\ ui = UiIdle

\* df['Categoria'] = '' ; df.loc[mask, 'Categoria'] = ...
Categorizar ==
    /\ mov.fase = "arg"
    /\ mov' = [mov EXCEPT !.categoria = Categoria(mov), !.fase = "categoria"]
    /\ UNCHANGED <<cls, conv, state_in, ss_in, state_out, ss_out, ui, agg>>

\* df['Concat_MI'] and the store of the table end the stage
AlmacenarMovimiento ==
    /\ mov.fase = "categoria"
    /\ mov' = [mov EXCEPT !.fase = "stored"]
    /\ UNCHANGED <<cls, conv, state_in, ss_in, state_out, ss_out, ui, agg>>

NextCategoria == Categorizar \/ AlmacenarMovimiento

SpecCategoria == InitCategoria /\ [][NextCategoria]_vars

(***************************************************************************)
(* Rastrero In as a session: every action is one user interaction and the  *)
(* run of rastrero_in() that follows it.  A file that stays in its         *)
(* uploader was handled by the run that followed its upload (it was        *)
(* stored, or rejected by its name) and a later run handles it the same    *)
(* way, so the runs that follow a filter change or a click see no file.    *)
(***************************************************************************)
MaxMovRows == 2
MaxStockRows == 2

MovUniverse ==
    << [ref1 |-> "INGRESO", um |-> "CAJA", glosa |-> Str("Recepcion"),
        motivo |-> "CAMBIO DE UBICACION", orig |-> Str("B4.RE.A.C06.01"),
        dest |-> "B4.MR.A.C09.01", art |-> "A1", cant |-> Num(80), lote |-> "L1"],
       [ref1 |-> "INGRESO", um |-> "CAJA", glosa |-> NA,
        motivo |-> "CAMBIO DE UBICACION", orig |-> Str("B4.MR.A.C10.03"),
        dest |-> "B4.MR.A.C09.01", art |-> "A1", cant |-> Num(30), lote |-> "L2"],
       [ref1 |-> "REGUL", um |-> "CAJA", glosa |-> Str("Recepcion"),
        motivo |-> "CAMBIO DE ESTADO", orig |-> Str("B4.MR.A.C10.03"),
        dest |-> "B4.MR.A.C10.03", art |-> "A1", cant |-> Num(20), lote |-> "L1"],
       [ref1 |-> "AJUSTE", um |-> "CAJA", glosa |-> Str("Ajuste"),
        motivo |-> "AJUSTE DE INVENTARIO", orig |-> NA,
        dest |-> "B4.RE.PISO", art |-> "B2", cant |-> Num(10), lote |-> "L2"],
       [ref1 |-> "PICKING-TRASLADO", um |-> "CAJA", glosa |-> Str("Traslado"),
        motivo |-> "CAMBIO DE UBICACION", orig |-> Str("B4.RE.A.C06.01"),
        dest |-> "B4.MR.A.C09.01", art |-> "A1", cant |-> Num(7), lote |-> "L3"],
       [ref1 |-> "INGRESO", um |-> "UNIDAD", glosa |-> Str("Recepcion"),
        motivo |-> "CAMBIO DE UBICACION", orig |-> Str("B4.RE.A.C06.01"),
        dest |-> "B4.MR.A.C10.03", art |-> "A1", cant |-> Num(9), lote |-> "L3"] >>

StockInUniverse ==
    << [ubic |-> "B4.MR.A.C09.01", art |-> "A1", um |-> "CJ", cant |-> Num(50)],
       [ubic |-> "B4.MR.A.C09.01", art |-> "A1", um |-> "PAL", cant |-> Num(60)],
       [ubic |-> "B4.MR.A.C10.03", art |-> "A1", um |-> "CJ", cant |-> Num(20)] >>

\* the rows of a universe chosen by a set of indices, in the universe's order
RECURSIVE Pick(_, _, _)
Pick(universe, I, i) ==
    IF i > Len(universe) THEN <<>>
    ELSE (IF i \in I THEN <<universe[i]>> ELSE <<>>) \o Pick(universe, I, i + 1)

Contents(universe, max) ==
    {Pick(universe, I, 1) :
        I \in {J \in SUBSET (1..Len(universe)) : Cardinality(J) <= max}}

MovFileName == "ReportConsultasMovimientosInternos_0611.xlsx"

\* files that are not the movements report, by their name
WrongMovFiles ==
    {File(n, Pick(MovUniverse, {1}, 1)) :
        n \in {"ReportConsultasIngresosFlujoIngresos.xlsx",
               "reportconsultasmovimientosinternos.xlsx"}}

MovFileInputs ==
    WrongMovFiles \cup
    {File(MovFileName, c) : c \in Contents(MovUniverse, MaxMovRows)}

StockInFileInputs ==
    {File("Stock.xlsx", c) : c \in Contents(StockInUniverse, MaxStockRows)}

TmplFile == File("Plantilla.xlsx", <<>>)

InitIn ==
    /\ state_in = EmptyDict /\ ss_in = EmptyDict
    /\ ui = UiIdle
    /\ cls = ClsIdle /\ conv = ConvIdle /\ mov = MovIdle
    /\ agg = AggIdle
    /\ state_out = EmptyDict /\ ss_out = EmptyDict

\* the session after a run of rastrero_in()
InPass(ss0, mov_file, stock_file, tmpl_file, gen_clicked) ==
    LET r == RastreroIn(state_in, ss0, mov_file, stock_file, tmpl_file, gen_clicked)
    IN  /\ state_in' = r.st
        /\ ss_in' = r.ss
        /\ ui' = r.ui
        /\ UNCHANGED <<cls, conv, mov, state_out, ss_out, agg>>

\* the user puts a file in "Movimientos internos" (line 200)
InSubirMovimientos ==
    \E mov_file \in MovFileInputs :
        InPass(ss_in, mov_file, NoFile, NoFile, FALSE)

\* the user puts a file in "Stock" (line 202); "Movimientos internos" is
\* empty or still holds a file that was rejected
InSubirStock ==
    \E stock_file \in StockInFileInputs, mov_file \in {NoFile} \cup WrongMovFiles :
        InPass(ss_in, mov_file, stock_file, NoFile, FALSE)

\* the user puts a file in "Plantilla" (line 204)
InSubirPlantilla ==
    InPass(ss_in, NoFile, NoFile, TmplFile, FALSE)

Toggle(S, x) == IF x \in S THEN S \ {x} ELSE S \cup {x}

\* the user adds or removes one value in the multiselect "Categoría" (line 273)
InCambiarCategoria ==
    /\ Has(state_in, "T_Mov_Internos")
    /\ \E c \in {r.categoria : r \in Range(state_in["T_Mov_Internos"])} :
          InPass(Put(ss_in, "cat_sel", Toggle(ss_in["cat_sel"], c)),
                 NoFile, NoFile, NoFile, FALSE)

\* ... in the multiselect "Glosa", among the options it offered (line 280)
InCambiarGlosa ==
    /\ Has(state_in, "T_Mov_Internos")
    /\ \E g \in GlosaOpts(state_in["T_Mov_Internos"], ss_in["cat_sel"]) :
          InPass(Put(ss_in, "glosa_sel", Toggle(ss_in["glosa_sel"], g)),
                 NoFile, NoFile, NoFile, FALSE)

\* ... in the multiselect "Lote", among the options it offered (line 287)
InCambiarLote ==
    /\ Has(state_in, "T_Mov_Internos")
    /\ \E l \in LoteOpts(state_in["T_Mov_Internos"], ss_in["cat_sel"],
                         ss_in["glosa_sel"]) :
          InPass(Put(ss_in, "lote_sel", Toggle(ss_in["lote_sel"], l)),
                 NoFile, NoFile, NoFile, FALSE)

\* the user clicks "Generar Rastrero In" (line 318), shown once both tables
\* are stored (line 313)
InGenerar ==
    /\ Has(state_in, "T_Stock_I") /\ Has(state_in, "T_Mov_Internos")
    /\ InPass(ss_in, NoFile, NoFile, NoFile, TRUE)

NextIn == InSubirMovimientos \/ InSubirStock \/ InSubirPlantilla
             \/ InCambiarCategoria \/ InCambiarGlosa \/ InCambiarLote \/ InGenerar

SpecIn == InitIn /\ [][NextIn]_vars

(***************************************************************************)
(* Properties of the classifiers.                                          *)
(***************************************************************************)
Pasillos == {"Pasillo_1", "Pasillo_2", "Pasillo_3", "Libre"}

Niveles == {"A", "B"}

\* C3: the classifiers are total: for every location string (the empty and
\* the all-blank ones included) and for a missing location, calc_pasillo
\* returns one of Pasillo_1, Pasillo_2, Pasillo_3, Libre and calc_nivel
\* returns A, B or the sentinel '', and neither call raises.
C3_ClasificadoresTotales ==
    /\ cls.fase # "raised"
    /\ cls.fase \in {"pasillo", "nivel", "zona"} => cls.pasillo \in Pasillos
    /\ cls.fase \in {"nivel", "zona"} => cls.nivel \in Niveles \cup {""}

C4_Ubicacion == "B4.RE.C06.A01"

\* C4 as stated: for "B4.RE.C06.A01" calc_pasillo gives Pasillo_1 (the
\* substring at [8,11) being "C06"), calc_nivel gives B and the zone of the
\* row is "Pasillo_1_B".
C4_Original_Pasillo1B ==
    cls.u = Str(C4_Ubicacion) =>
        /\ cls.fase \in {"pasillo", "nivel", "zona"} => cls.pasillo = "Pasillo_1"
        /\ cls.fase \in {"nivel", "zona"} => cls.nivel = "B"
        /\ cls.fase = "zona" => cls.zona = "Pasillo_1_B"

\* C4 as amended: "B4.RE.C06.A01" has length 13, characters [3,5) "RE"
\* and characters [8,11) "6.A" ("C06" stands at [6,9)), so calc_pasillo
\* gives Libre; the last character "1" is a digit <= 2, so calc_nivel gives
\* B; the zone of the row is "Libre_B".
C4_EscenarioLibreB ==
    cls.u = Str(C4_Ubicacion) =>
        /\ Len(cls.u.s) = 13
        /\ PySlice(cls.u.s, 3, 5) = "RE"
        /\ PySlice(cls.u.s, 6, 9) = "C06"
        /\ PySlice(cls.u.s, 8, 11) = "6.A"
        /\ CharAt(cls.u.s, Len(cls.u.s) - 1) = "1"
        /\ cls.fase # "raised"
        /\ cls.fase \in {"pasillo", "nivel", "zona"} => cls.pasillo = "Libre"
        /\ cls.fase \in {"nivel", "zona"} => cls.nivel = "B"
        /\ cls.fase = "zona" => cls.zona = "Libre_B"

C4_Witness == cls.u = Str(C4_Ubicacion) /\ cls.fase = "zona"

(***************************************************************************)
(* Properties of the unit converter.                                       *)
(***************************************************************************)
\* C5 as stated: "PALCS36U" gives factor 36, and 360 units give 10 boxes.
C5_Original_Palcs36uFactor36 ==
    conv.huella = Str("PALCS36U") =>
        /\ conv.fase \in {"factor", "cajas"} => conv.factor = Num(36)
        /\ (conv.fase = "cajas" /\ conv.units = Num(360)) => conv.cajas = Num(10)

\* C5 as amended: in "PALCS36U" the C is followed by "S", so the pattern
\* C<n>U does not occur: the factor is 1 and 360 units are 360 boxes.  The
\* footprint "PALC36U" gives factor 36, and 360 units give 10 boxes.
C5_Palcs36uFactor1 ==
    /\ conv.huella = Str("PALCS36U") =>
          /\ conv.fase \in {"factor", "cajas"} => conv.factor = Num(1)
          /\ (conv.fase = "cajas" /\ conv.units = Num(360)) => conv.cajas = Num(360)
    /\ conv.huella = Str("PALC36U") =>
          /\ conv.fase \in {"factor", "cajas"} => conv.factor = Num(36)
          /\ (conv.fase = "cajas" /\ conv.units = Num(360)) => conv.cajas = Num(10)

C5_Witness ==
    /\ conv.huella = Str("PALCS36U") /\ conv.via = "picking"
    /\ conv.fase = "cajas" /\ conv.units = Num(360)

\* t is a decimal numeral: digits, or digits "." digits
IsDecimalNumeral(t) ==
    \E p \in 1..Len(t) :
        /\ \A i \in 0..(p - 1) : IsDigit(CharAt(t, i))
        /\ \/ p = Len(t)
           \/ /\ CharAt(t, p) = "."
              /\ p + 1 < Len(t)
              /\ \A i \in (p + 1)..(Len(t) - 1) : IsDigit(CharAt(t, i))

\* s holds "C", a decimal numeral and "U" from index i to index j
PatternAt(s, i, j) ==
    /\ CharAt(s, i) = "C" /\ CharAt(s, j) = "U"
    /\ IsDecimalNumeral(PySlice(s, i + 1, j))

Patterns(s) ==
    {ij \in (0..(Len(s) - 1)) \X (0..(Len(s) - 1)) :
        ij[1] + 1 < ij[2] /\ PatternAt(s, ij[1], ij[2])}

\* the number a decimal numeral denotes, digit by digit
NumeralValue(t) ==
    LET digs == {i \in 0..(Len(t) - 1) : CharAt(t, i) # "."}
        after(i) == Cardinality({j \in digs : j > i})
        frac == IF \E i \in 0..(Len(t) - 1) : CharAt(t, i) = "."
                THEN Len(t) - 1 - (CHOOSE i \in 0..(Len(t) - 1) : CharAt(t, i) = ".")
                ELSE 0
        Sum[S \in SUBSET digs] ==
            IF S = {} THEN 0
            ELSE LET i == CHOOSE x \in S : TRUE
                 IN  DigitVal(CharAt(t, i)) * Pow10(after(i)) + Sum[S \ {i}]
    IN  Fin(Sum[digs], Pow10(frac))

\* C6: when the footprint contains the pattern C<n>U the factor is the
\* number n of its first occurrence, exactly; when it contains none, and
\* when the footprint is missing, the factor is 1.
C6_FactorEsN ==
    conv.fase \in {"factor", "cajas"} =>
        IF conv.huella.na \/ Patterns(conv.huella.s) = {}
        THEN conv.factor = Num(1)
        ELSE \E ij \in Patterns(conv.huella.s) :
                /\ \A q \in Patterns(conv.huella.s) : ij[1] <= q[1]
                /\ conv.factor = NumeralValue(PySlice(conv.huella.s, ij[1] + 1, ij[2]))

C6_Witness ==
    /\ conv.fase = "factor" /\ ~conv.huella.na
    /\ Cardinality(Patterns(conv.huella.s)) = 2
    /\ conv.factor = Num(36)

C6_WitnessFraccion ==
    /\ conv.fase = "factor" /\ conv.huella = Str("C2.2U")
    /\ conv.factor = Fin(11, 5)

\* C7: the division by the factor is never a division by zero: on the
\* picking path and on the stock path the factor that divides is positive,
\* and the boxes of a non-negative quantity are a finite, non-negative number.
C7_NuncaDivideEntreCero ==
    (conv.fase = "cajas" /\ conv.via \in {"picking", "stock"}) =>
        /\ IsFinite(conv.factor) /\ conv.factor.n > 0
        /\ IsFinite(conv.cajas) /\ conv.cajas.n >= 0

(***************************************************************************)
(* Section 6: Rastrero Out.                                                *)
(***************************************************************************)
\* str.find(ch, i): the first index of ch at or after i, -1 when there is none
RECURSIVE Find(_, _, _)
Find(s, ch, i) ==
    IF i >= Len(s) THEN -1
    ELSE IF CharAt(s, i) = ch THEN i
    ELSE Find(s, ch, i + 1)

\* df['Cliente'].str.split('|').str[1].fillna(df['Cliente']), for one cell
ClienteExt(cliente) ==
    LET i == Find(cliente, "|", 0)
        j == Find(cliente, "|", i + 1)
    IN  IF i < 0 THEN cliente
        ELSE PySlice(cliente, i + 1, IF j < 0 THEN Len(cliente) ELSE j)

\* the nine headers the picking file must carry (lines 486-487)
headers ==
    {"Estado", "Nro. Picking", "Usuario Picking", "Cliente", "Ubicacion",
     "Cod. Articulo", "Articulo", "Cant. Pick. UMS", "Huella"}

\* norm_cols (lines 122-127) on the column names; the accent folding is the
\* identity on the ASCII headers of the files drawn here
norm_cols(cols) == {Strip(h) : h \in cols}

\* lines 494-498: the picking rows with Factor, Cajas_x, Concat1, Cliente_ext
AsigProcesada(r) ==
    [pick |-> r.pick, cliente |-> r.cliente, ubic |-> r.ubic, art |-> r.art,
     cant |-> r.cant, huella |-> r.huella,
     factor |-> factor(r.huella),
     cajas_x |-> Cajas(r.cant, factor(r.huella)),
     concat1 |-> r.ubic \o r.art,
     cliente_ext |-> ClienteExt(r.cliente)]

ProcesarAsignacion(rows) == Col(rows, AsigProcesada)

\* sorted(df['Nro. Picking'].dropna().unique())   (lines 500, 504)
all_picks(df) == {r.pick : r \in Range(df)}

CantDe(r) == r.cant

CajasXDe(r) == r.cajas_x

CajasYDe(r) == r.cajas_y

\* lines 526-534: df_stock, one row per Concat2 in the order of the keys
StockProcesada(r) ==
    [ubic |-> r.ubic, art |-> r.art, cant |-> r.cant,
     cajas_y |-> Cajas(r.cant, factor(r.huella)),
     concat2 |-> r.ubic \o r.art]

\* lines 531-534: groupby('Concat2') with sum, sum, first, first
AgruparPorConcat2(df2) ==
    LET keys == Sorted({r.concat2 : r \in Range(df2)})
        row(key) ==
            LET Mask(r) == r.concat2 = key
                g == Filas(df2, Mask)
            IN  [concat2 |-> key, cant |-> FSum(Col(g, CantDe)),
                 cajas_y |-> FSum(Col(g, CajasYDe)),
                 ubic |-> g[1].ubic, art |-> g[1].art]
    IN  [i \in 1..Len(keys) |-> row(keys[i])]

AgruparStockOut(rows) == AgruparPorConcat2(Col(rows, StockProcesada))

\* line 540: the picking rows of the selected pickings
AsigFiltrada(df, picks) ==
    LET Mask(r) == r.pick \in picks
    IN  Filas(df, Mask)

\* line 541: tpick
TPick(df_f) ==
    LET keys == Sorted({r.pick : r \in Range(df_f)})
        row(key) ==
            LET Mask(r) == r.pick = key
                g == Filas(df_f, Mask)
            IN  [pick |-> key, cant |-> FSum(Col(g, CantDe)),
                 cajas_x |-> FSum(Col(g, CajasXDe))]
    IN  [i \in 1..Len(keys) |-> row(keys[i])]

\* line 542: tcli
TCli(df_f) ==
    LET keys == SortedTuples({<<r.pick, r.cliente_ext>> : r \in Range(df_f)})
        row(key) ==
            LET Mask(r) == <<r.pick, r.cliente_ext>> = key
                g == Filas(df_f, Mask)
            IN  [pick |-> key[1], cliente |-> key[2],
                 cant |-> FSum(Col(g, CantDe)),
                 cajas_x |-> FSum(Col(g, CajasXDe))]
    IN  [i \in 1..Len(keys) |-> row(keys[i])]

\* line 543: asign
Asign(df_f) ==
    LET keys == SortedTuples({<<r.concat1, r.ubic, r.art>> : r \in Range(df_f)})
        row(key) ==
            LET Mask(r) == <<r.concat1, r.ubic, r.art>> = key
            IN  [concat1 |-> key[1], ubic |-> key[2], art |-> key[3],
                 cajas_x |-> FSum(Col(Filas(df_f, Mask), CajasXDe))]
    IN  [i \in 1..Len(keys) |-> row(keys[i])]

\* lines 550-557: one row of bd, the left merge of asign with df_stock
MergeFila(a, df_stock) ==
    LET Mask(s) == s.concat2 = a.concat1
        m == Filas(df_stock, Mask)
        cajas_y == IF Len(m) > 0 THEN m[1].cajas_y ELSE NaN
        final == FillNa(cajas_y, Num(0))
        ubic_out == IF Len(m) > 0 THEN m[1].ubic ELSE a.ubic
    IN  [ubic |-> ubic_out, prod |-> a.art, um |-> "CAJ",
         inicial |-> FAdd(a.cajas_x, final), salidas |-> a.cajas_x,
         final |-> final, check |-> "", obs |-> "",
         pasillo |-> calc_pasillo(Str(ubic_out)),
         nivel |-> calc_nivel(Str(ubic_out)),
         zona |-> Zona(Str(ubic_out))]

Merge(asign, df_stock) ==
    LET fila(a) == MergeFila(a, df_stock)
    IN  Col(asign, fila)

\* line 556: an empty location makes calc_nivel raise
NivelOutRaises(bd) == \E r \in Range(bd) : r.nivel = IndexError

\* line 559: sort_values('Ubicacion_out'); rows of one location keep their order
RECURSIVE OrdenarPorUbicacion(_)
OrdenarPorUbicacion(t) ==
    IF Len(t) = 0 THEN <<>>
    ELSE LET i == CHOOSE x \in 1..Len(t) :
                      /\ \A y \in 1..Len(t) : ~StrLt(t[y].ubic, t[x].ubic)
                      /\ \A y \in 1..(x - 1) : t[y].ubic # t[x].ubic
         IN  <<t[i]>> \o OrdenarPorUbicacion(SubSeq(t, 1, i - 1) \o SubSeq(t, i + 1, Len(t)))

\* cols_export (line 560)
FilaExport(r) ==
    [ubic |-> r.ubic, prod |-> r.prod, um |-> r.um, inicial |-> r.inicial,
     salidas |-> r.salidas, final |-> r.final, check |-> r.check, obs |-> r.obs]

\* as Tablas, without the sort by location and keeping the Libre rows
Tablas_SinOrdenar(bd0) ==
    LET tabla(zona) ==
            LET Mask(r) == r.zona = zona
            IN  Col(Filas(bd0, Mask), FilaExport)
    IN  [zona \in {r.zona : r \in Range(bd0)} |-> tabla(zona)]

\* lines 558-566: tablas
Tablas(bd0) ==
    LET NoLibre(r) == r.pasillo # "Libre"
        bd == OrdenarPorUbicacion(Filas(bd0, NoLibre))
        tabla(zona) ==
            LET Mask(r) == r.zona = zona
            IN  Col(Filas(bd, Mask), FilaExport)
    IN  [zona \in {r.zona : r \in Range(bd)} |-> tabla(zona)]

\* the three uploaders of Rastrero Out (lines 479-483), widgets of the session
SlotsOut == {"asig_out", "stock_out", "tmpl_out"}

\* a run in progress; fin is set by a return or by an exception
RunOut(st, ss) ==
    [st |-> st, ss |-> ss, fin |-> FALSE,
     ui |-> Ui("out", {}, SlotsOut \cap DOMAIN ss, "", "")]

\* as LeerAsignacion, reading the file of the uploader at every run
LeerAsignacion_Sobrescribe(c) ==
    IF ~Has(c.ss, "asig_out") THEN c
    ELSE IF ~(headers \subseteq norm_cols(c.ss["asig_out"].headers))
    THEN [Aviso(c, "Cabeceras incorrectas") EXCEPT !.fin = TRUE]
    ELSE LET df == ProcesarAsignacion(c.ss["asig_out"].rows)
         IN  [c EXCEPT !.st = Put(@, "df_asig_raw", df),
                       !.ss = Put(@, "picks_sel", all_picks(df))]

\* lines 488-500: the picking file is read once; without the nine headers
\* the run returns
LeerAsignacion(c) ==
    IF ~(Has(c.ss, "asig_out") /\ ~Has(c.st, "df_asig_raw")) THEN c
    ELSE IF ~(headers \subseteq norm_cols(c.ss["asig_out"].headers))
    THEN [Aviso(c, "Cabeceras incorrectas") EXCEPT !.fin = TRUE]
    ELSE LET df == ProcesarAsignacion(c.ss["asig_out"].rows)
         IN  [c EXCEPT !.st = Put(@, "df_asig_raw", df),
                       !.ss = Put(@, "picks_sel", all_picks(df))]

\* lines 503-521: the multiselect of pickings
FiltroPickings(c) ==
    IF c.fin \/ ~Has(c.st, "df_asig_raw") THEN c
    ELSE [c EXCEPT !.ss = SetDefault(@, "picks_sel", all_picks(c.st["df_asig_raw"]))]

\* lines 524-535: the stock file is read once
LeerStockOut(c) ==
    IF c.fin \/ ~(Has(c.ss, "stock_out") /\ ~Has(c.st, "df_stock")) THEN c
    ELSE Aviso([c EXCEPT !.st = Put(@, "df_stock",
                                    AgruparStockOut(c.ss["stock_out"].rows))],
               "Stock listo")

\* st.session_state.get('picks_sel', [])   (line 538)
picks(ss) == IF Has(ss, "picks_sel") THEN ss["picks_sel"] ELSE {}

GuardarResumenes(st, df_f) ==
    Put(Put(Put(st, "tpick", TPick(df_f)), "tcli", TCli(df_f)), "asign", Asign(df_f))

\* lines 538-546: the summaries, recomputed when some picking is selected
Resumenes(c) ==
    IF c.fin \/ ~(Has(c.st, "df_asig_raw") /\ picks(c.ss) # {}) THEN c
    ELSE Aviso([c EXCEPT !.st = GuardarResumenes(@,
                                    AsigFiltrada(c.st["df_asig_raw"], picks(c.ss)))],
               "Resumenes listos")

\* lines 550-567 for a bd already merged
GenerarConBd(c, bd) ==
    IF NivelOutRaises(bd)
    THEN [c EXCEPT !.ui.exc = "IndexError", !.ui.gen = "error", !.fin = TRUE]
    ELSE [Aviso([c EXCEPT !.st = Put(@, "ras_out", Tablas(bd))], "Rastrero Out listo")
            EXCEPT !.ui.gen = "ok"]

\* lines 549-567: the click on "Generar Rastrero Out"
GenerarOut(c, gen_clicked) ==
    IF c.fin \/ ~gen_clicked THEN c
    ELSE GenerarConBd(c, Merge(c.st["asign"], c.st["df_stock"]))

PickDe(r) == r.pick

\* lines 570-606: the workbook offered for download
Descarga(c) ==
    IF c.fin \/ ~(Has(c.ss, "tmpl_out") /\ Has(c.st, "ras_out")) THEN c
    ELSE IF ~(DOMAIN c.st["ras_out"] \subseteq c.ss["tmpl_out"].hojas)
    THEN [Aviso(c, "No se encontraron las hojas") EXCEPT !.fin = TRUE]
    ELSE [c EXCEPT !.ui.descarga =
              [ofrecida |-> TRUE, hojas |-> c.st["ras_out"],
               picks |-> Col(c.st["tpick"], PickDe)]]

\* one run of rastrero_out() (lines 472-606): the session after it
RastreroOut(st0, ss0, gen_clicked) ==
    Descarga(
        GenerarOut(
            Resumenes(
                LeerStockOut(
                    FiltroPickings(
                        LeerAsignacion(RunOut(st0, ss0))))),
            gen_clicked))

(***************************************************************************)
(* Rastrero Out as a session: every action is one user interaction and the *)
(* run of rastrero_out() that follows it.  The uploaders are widgets: a    *)
(* file stays in its uploader for the runs that follow.  A file put in an  *)
(* uploader whose table is already stored is never read (lines 488, 524),  *)
(* so the files are uploaded while their table is not stored.              *)
(***************************************************************************)
MaxPickRows == 3
MaxStockOutRows == 2

AsigUniverse ==
    << [pick |-> "P1", cliente |-> "001|Tiendas", ubic |-> "B4.RE.A.C06.01",
        art |-> "A1", cant |-> Num(72), huella |-> Str("C36U")],
       [pick |-> "P2", cliente |-> "Mayorista", ubic |-> "B4.RE.A.C06.01",
        art |-> "A1", cant |-> Num(36), huella |-> Str("C36U")],
       [pick |-> "P1", cliente |-> "001|Tiendas", ubic |-> "B4.RE.A.C11.05",
        art |-> "B2", cant |-> Num(5), huella |-> Str("C0U")],
       [pick |-> "P2", cliente |-> "Mayorista", ubic |-> "B4.RE.PISO",
        art |-> "B2", cant |-> Num(10), huella |-> NA],
       [pick |-> "P3", cliente |-> "002|Web|Lima", ubic |-> " ",
        art |-> "A1", cant |-> Num(4), huella |-> Str("PALCS36U")],
       [pick |-> "P2", cliente |-> "Mayorista", ubic |-> "B4.RE.A.C06.011",
        art |-> "A1", cant |-> Num(36), huella |-> Str("C36U")] >>

StockOutUniverse ==
    << [ubic |-> "B4.RE.A.C06.01", art |-> "A1", cant |-> Num(180), huella |-> Str("C36U")],
       [ubic |-> "B4.RE.A.C06.01", art |-> "A1", cant |-> Num(18), huella |-> Str("C36U")],
       [ubic |-> "B4.RE.A.C11.05", art |-> "B2", cant |-> Num(7), huella |-> NA] >>

AsigFile(cols, rows) ==
    [present |-> TRUE, name |-> "Asignacion.xlsx", headers |-> cols, rows |-> rows]

\* picking files that lack one of the nine headers
BadAsigFiles ==
    {AsigFile(headers \ {"Huella"}, Pick(AsigUniverse, {1}, 1))}

AsigFileInputs ==
    BadAsigFiles \cup
    {AsigFile((headers \ {"Huella"}) \cup {" Huella "}, c) :
        c \in Contents(AsigUniverse, MaxPickRows) \ {<<>>}}

StockOutFileInputs ==
    {File("Stock.xlsx", c) : c \in Contents(StockOutUniverse, MaxStockOutRows)}

ZonasValidas ==
    {p \o "_" \o n : p \in {"Pasillo_1", "Pasillo_2", "Pasillo_3"}, n \in {"A", "B"}}

TmplOutInputs ==
    {[present |-> TRUE, name |-> "Plantilla.xlsx", hojas |-> h] :
        h \in {ZonasValidas, ZonasValidas \ {"Pasillo_1_B"}}}

InitOut ==
    /\ state_out = EmptyDict /\ ss_out = EmptyDict
    /\ ui = UiIdle
    /\ cls = ClsIdle /\ conv = ConvIdle /\ mov = MovIdle
    /\ agg = AggIdle
    /\ state_in = EmptyDict /\ ss_in = EmptyDict

\* the session after a run of rastrero_out()
OutPass(ss0, gen_clicked) ==
    LET r == RastreroOut(state_out, ss0, gen_clicked)
    IN  /\ state_out' = r.st
        /\ ss_out' = r.ss
        /\ ui' = r.ui
        /\ UNCHANGED <<cls, conv, mov, state_in, ss_in, agg>>

\* the user puts a file in "Asignación" (line 479)
OutSubirAsignacion ==
    /\ ~Has(state_out, "df_asig_raw")
    /\ \E asig_file \in AsigFileInputs :
          OutPass(Put(ss_out, "asig_out", asig_file), FALSE)

\* the user puts a file in "Stock" (line 481)
OutSubirStock ==
    /\ ~Has(state_out, "df_stock")
    /\ \E stock_file \in StockOutFileInputs :
          OutPass(Put(ss_out, "stock_out", stock_file), FALSE)

\* the user puts a file in "Plantilla" (line 483)
OutSubirPlantilla ==
    \E tmpl_file \in TmplOutInputs :
        OutPass(Put(ss_out, "tmpl_out", tmpl_file), FALSE)

\* the user adds or removes one picking in "Filtrar Pickings" (line 517)
OutCambiarPickings ==
    /\ Has(state_out, "df_asig_raw") /\ Has(ss_out, "picks_sel")
    /\ \E p \in all_picks(state_out["df_asig_raw"]) :
          OutPass(Put(ss_out, "picks_sel", Toggle(ss_out["picks_sel"], p)), FALSE)

\* the user clicks "Generar Rastrero Out", enabled once asign and df_stock
\* are stored (line 549)
OutGenerar ==
    /\ Has(state_out, "asign") /\ Has(state_out, "df_stock")
    /\ OutPass(ss_out, TRUE)

NextOut == OutSubirAsignacion \/ OutSubirStock \/ OutSubirPlantilla
              \/ OutCambiarPickings \/ OutGenerar

SpecOut == InitOut /\ [][NextOut]_vars

(***************************************************************************)
(* Properties of Rastrero In.                                              *)
(***************************************************************************)
\* the sum of a column of a table over the rows chosen by a set of indices
RECURSIVE SumOver(_, _, _)
SumOver(I, t, campo) ==
    IF I = {} THEN Num(0)
    ELSE LET i == CHOOSE x \in I : TRUE
         IN  FAdd(t[i][campo], SumOver(I \ {i}, t, campo))

\* a < b for two finite numbers
FLess(a, b) == a.n * b.d < b.n * a.d

\* closing stock of a composite key: the stock of the key summed over the
\* stored stock table, 0 when the key has no stock row
ClosingStockIn(clave) ==
    LET t == state_in["T_Stock_I"]
    IN  SumOver({i \in 1..Len(t) : t[i].ubic \o t[i].art = clave}, t, "stock_final")

\* flow of a composite key: the destination quantity of the key summed over
\* the movements the current selections keep
FlowIn(clave) ==
    LET t == state_in["T_Mov_Internos"]
    IN  SumOver({i \in 1..Len(t) :
                    /\ t[i].dest \o t[i].art = clave
                    /\ t[i].categoria \in ss_in["cat_sel"]
                    /\ t[i].glosa \in ss_in["glosa_sel"]
                    /\ t[i].lote \in ss_in["lote_sel"]}, t, "cant")

FilasRastreroIn ==
    UNION {Range(state_in[t]) : t \in {"R_Nivel_Bajo", "R_Nivel_Alto"} \cap DOMAIN state_in}

\* C1: in every row of R_Nivel_Bajo and R_Nivel_Alto the closing stock is
\* the summed stock of the row's key (0 without a stock match) and, right
\* after the generation, the flow is the summed destination quantity of
\* the key; the observation is "Regu" exactly when closing < flow; opening
\* + flow = closing when the observation is empty, and opening = closing
\* when it is "Regu".
C1_ReconciliacionIn ==
    \A r \in FilasRastreroIn :
        /\ r.final = ClosingStockIn(r.ubic \o r.prod)
        /\ ui.gen = "ok" => r.ingresos = FlowIn(r.ubic \o r.prod)
        /\ r.obs \in {"", "Regu"}
        /\ r.obs = "Regu" <=> FLess(r.final, r.ingresos)
        /\ r.obs = "" => FAdd(r.inicial, r.ingresos) = r.final
        /\ r.obs = "Regu" => r.inicial = r.final

\* closing 50 and inbound 80 give opening 50 and "Regu" in the low table,
\* next to a row of the high table whose stock covers its inbound quantity
C1_Witness ==
    /\ ui.gen = "ok"
    /\ \E r \in Range(state_in["R_Nivel_Bajo"]) :
          /\ r.final = Num(50) /\ r.ingresos = Num(80)
          /\ r.inicial = Num(50) /\ r.obs = "Regu"
    /\ \E r \in Range(state_in["R_Nivel_Alto"]) :
          /\ r.final = Num(20) /\ r.ingresos = Num(20)
          /\ r.inicial = Num(0) /\ r.obs = ""

\* the origin of a movement starts with "B4.RE"
OrigenEnRecepcion(m) ==
    /\ ~m.orig.na /\ Len(m.orig.s) >= 5
    /\ \A i \in 1..5 : SubSeq(m.orig.s, i, i) = SubSeq("B4.RE", i, i)

\* C8 as stated: a "CAMBIO DE UBICACION" is Almacenamiento exactly when its
\* destination location starts with "B4.RE" and Mov_Interno otherwise;
\* "CAMBIO DE ESTADO" is the state change; any other motivo has no category.
C8_Original_PorDestino ==
    mov.fase \in {"categoria", "stored"} =>
        /\ mov.motivo = "CAMBIO DE UBICACION" =>
              mov.categoria = IF StartsWith(mov.dest, "B4.RE")
                              THEN "Almacenamiento" ELSE "Mov_Interno"
        /\ mov.motivo = "CAMBIO DE ESTADO" =>
              mov.categoria = "Regul_Interna/Cambio_Estado"
        /\ mov.motivo \notin {"CAMBIO DE UBICACION", "CAMBIO DE ESTADO"} =>
              mov.categoria = ""

\* C8 as amended: a "CAMBIO DE UBICACION" is Almacenamiento exactly when its
\* origin location starts with "B4.RE" (a missing origin does not) and
\* Mov_Interno otherwise; "CAMBIO DE ESTADO" is the state change; any other
\* motivo has no category.  Each record has exactly one category.
C8_CategoriaPorOrigen ==
    mov.fase \in {"categoria", "stored"} =>
        /\ (mov.motivo = "CAMBIO DE UBICACION" /\ OrigenEnRecepcion(mov)) =>
              mov.categoria = "Almacenamiento"
        /\ (mov.motivo = "CAMBIO DE UBICACION" /\ ~OrigenEnRecepcion(mov)) =>
              mov.categoria = "Mov_Interno"
        /\ mov.motivo = "CAMBIO DE ESTADO" =>
              mov.categoria = "Regul_Interna/Cambio_Estado"
        /\ mov.motivo \notin {"CAMBIO DE UBICACION", "CAMBIO DE ESTADO"} =>
              mov.categoria = ""

C8_Witness ==
    /\ mov.fase = "stored" /\ mov.motivo = "CAMBIO DE UBICACION"
    /\ OrigenEnRecepcion(mov) /\ ~StartsWith(mov.dest, "B4.RE")
    /\ mov.categoria = "Almacenamiento"

\* the glosas and the lots the selections of a session leave available
GlosasDisponibles(st, ss) ==
    {g \in {m.glosa : m \in Range(st["T_Mov_Internos"])} :
        \E m \in Range(st["T_Mov_Internos"]) :
            m.glosa = g /\ m.categoria \in ss["cat_sel"]}

LotesDisponibles(st, ss) ==
    {l \in {m.lote : m \in Range(st["T_Mov_Internos"])} :
        \E m \in Range(st["T_Mov_Internos"]) :
            m.lote = l /\ m.categoria \in ss["cat_sel"] /\ m.glosa \in ss["glosa_sel"]}

\* after a run: the selections are among the available values, and empty
\* only when nothing is available
C9_Subconjuntos ==
    Has(state_in, "T_Mov_Internos") =>
        /\ ss_in["glosa_sel"] \subseteq GlosasDisponibles(state_in, ss_in)
        /\ ss_in["lote_sel"] \subseteq LotesDisponibles(state_in, ss_in)
        /\ ss_in["glosa_sel"] = {} => GlosasDisponibles(state_in, ss_in) = {}
        /\ ss_in["lote_sel"] = {} => LotesDisponibles(state_in, ss_in) = {}

\* what is left of a selection the user did not touch in this step
Restante(old, disponibles) ==
    IF old \cap disponibles # {} THEN old \cap disponibles ELSE disponibles

\* a step that changes the categories leaves of the glosas exactly those
\* still available, or all the available ones when none is left; a step
\* that changes the categories or the glosas does the same to the lots
C9_Cascada ==
    (Has(state_in, "T_Mov_Internos") /\ Has(ss_in, "cat_sel")) =>
        /\ ss_in'["cat_sel"] # ss_in["cat_sel"] =>
              ss_in'["glosa_sel"] =
                  Restante(ss_in["glosa_sel"], GlosasDisponibles(state_in', ss_in'))
        /\ (ss_in'["cat_sel"] # ss_in["cat_sel"]
              \/ ss_in'["glosa_sel"] # ss_in["glosa_sel"]) =>
              ss_in'["lote_sel"] =
                  Restante(ss_in["lote_sel"], LotesDisponibles(state_in', ss_in'))

\* C9: after any sequence of selection changes, when the filtered movements
\* are computed the selected glosas are among the glosas of the selected
\* categories and the selected lots among the lots of the selected
\* categories and glosas; a selected value that became unavailable was
\* dropped and a selection that became empty was replaced by all the
\* available values.
C9_CascadaDeFiltros == [](C9_Subconjuntos) /\ [][C9_Cascada]_vars

\* the categories were narrowed, one glosa and one lot were dropped with them
C9_Witness ==
    /\ Has(state_in, "T_Mov_Internos")
    /\ ss_in["cat_sel"] = {"Mov_Interno"}
    /\ {m.categoria : m \in Range(state_in["T_Mov_Internos"])}
          = {"Almacenamiento", "Mov_Interno"}
    /\ ss_in["glosa_sel"] # {m.glosa : m \in Range(state_in["T_Mov_Internos"])}
    /\ ss_in["lote_sel"] = {"L2"}

\* C10 for Rastrero In: a movements file rejected by its name stores no
\* table, leaves every key of the session with its value, and the stock
\* file of the same run is read.
C10_In_RechazoSoloEsaEtapa ==
    "Archivo Movimientos Internos incorrecto" \in ui'.avisos =>
        /\ \A key \in DOMAIN state_in :
              Has(state_in', key) /\ state_in'[key] = state_in[key]
        /\ Has(state_in', "T_Mov_Internos") => Has(state_in, "T_Mov_Internos")
        /\ "stock_in" \in ui'.presentes => Has(state_in', "T_Stock_I")

C10_In_Property == [][C10_In_RechazoSoloEsaEtapa]_vars

(***************************************************************************)
(* Properties of Rastrero Out.                                             *)
(***************************************************************************)
\* the rows of the zone tables stored by "Generar Rastrero Out"
FilasRastreroOut ==
    IF Has(state_out, "ras_out")
    THEN UNION {Range(state_out["ras_out"][z]) : z \in DOMAIN state_out["ras_out"]}
    ELSE {}

\* closing stock of a composite key: the boxes of the key summed over the
\* stored stock table, 0 when the key has no stock row
ClosingStockOut(clave) ==
    LET t == state_out["df_stock"]
    IN  SumOver({i \in 1..Len(t) : t[i].concat2 = clave}, t, "cajas_y")

\* C2: in every row of every zone table opening - flow = closing, the
\* observation is empty, and closing is the stock box total of the row's
\* key, 0 when the key has no stock row (then opening = flow).
C2_ReconciliacionOut ==
    \A r \in FilasRastreroOut :
        /\ FEq(FSub(r.inicial, r.salidas), r.final)
        /\ r.obs = ""
        /\ r.final = ClosingStockOut(r.ubic \o r.prod)
        /\ (\A s \in Range(state_out["df_stock"]) : s.concat2 # r.ubic \o r.prod)
              => (r.final = Num(0) /\ FEq(r.inicial, r.salidas))

\* C10 for Rastrero Out: a run that rejects the picking file for its headers
\* stores no picking table, leaves every key of the session with its value,
\* and reads the stock file held by the uploader in that run.
C10_Out_RechazoSoloEsaEtapa ==
    "Cabeceras incorrectas" \in ui'.avisos =>
        /\ ~Has(state_out', "df_asig_raw")
        /\ \A key \in DOMAIN state_out :
              Has(state_out', key) /\ state_out'[key] = state_out[key]
        /\ Has(ss_out', "stock_out") => Has(state_out', "df_stock")

C10_RechazoSoloEsaEtapa == [][C10_Out_RechazoSoloEsaEtapa]_vars

\* the rows of the join of the stored asign with the stored stock
FilasJoin ==
    {MergeFila(a, state_out["df_stock"]) : a \in Range(state_out["asign"])}

\* the places (zone, position) of the stored zone tables that hold a row
\* with the location, article and flow of a joined row
LugaresDe(j) ==
    {<<z, i>> \in UNION {{z2} \X (1..Len(state_out["ras_out"][z2])) :
                            z2 \in DOMAIN state_out["ras_out"]} :
        LET r == state_out["ras_out"][z][i]
        IN  r.ubic = j.ubic /\ r.prod = j.prod /\ r.salidas = j.salidas}

\* C11: the stored result of "Generar Rastrero Out" maps zone ids to tables:
\* every key is one of the 6 valid zones, every table has a row, no row of
\* a Libre aisle is in a table, each table is sorted by location ascending,
\* and right after a generation every joined row whose aisle is not Libre
\* is in exactly one table, the one of its aisle and level.
C11_TablasPorZona ==
    Has(state_out, "ras_out") =>
        /\ \A z \in DOMAIN state_out["ras_out"] :
              LET t == state_out["ras_out"][z]
              IN  /\ z \in ZonasValidas
                  /\ Len(t) >= 1
                  /\ \A i \in 1..Len(t) :
                        /\ calc_pasillo(Str(t[i].ubic)) # "Libre"
                        /\ calc_pasillo(Str(t[i].ubic)) \o "_"
                              \o calc_nivel(Str(t[i].ubic)) = z
                  /\ \A i \in 1..(Len(t) - 1) : ~StrLt(t[i + 1].ubic, t[i].ubic)
        /\ ui.gen = "ok" =>
              /\ \A j \in FilasJoin :
                    IF j.pasillo = "Libre" THEN LugaresDe(j) = {}
                    ELSE /\ Cardinality(LugaresDe(j)) = 1
                         /\ \A l \in LugaresDe(j) : l[1] = j.zona
              /\ \A z \in DOMAIN state_out["ras_out"] :
                    \A i \in 1..Len(state_out["ras_out"][z]) :
                        \E j \in FilasJoin : <<z, i>> \in LugaresDe(j)

\* a generation that dropped a Libre row and sorted two rows of one zone
\* that the join held in the other order
C11_Witness ==
    /\ ui.gen = "ok"
    /\ \E j \in FilasJoin : j.pasillo = "Libre"
    /\ Has(state_out["ras_out"], "Pasillo_1_B")
    /\ Len(state_out["ras_out"]["Pasillo_1_B"]) = 2
    /\ state_out["asign"][1].ubic = "B4.RE.A.C06.011"
    /\ state_out["ras_out"]["Pasillo_1_B"][1].ubic = "B4.RE.A.C06.01"

\* the rows of a stored inbound table with a location and an article
FilasDe(tabla, ubic, prod) ==
    {i \in 1..Len(state_in[tabla]) :
        state_in[tabla][i].ubic = ubic /\ state_in[tabla][i].prod = prod}

\* the last character of a destination location, "" for a blank location
UltimoCaracter(ubic) ==
    IF Len(Strip(ubic)) = 0 THEN ""
    ELSE SubSeq(Strip(ubic), Len(Strip(ubic)), Len(Strip(ubic)))

\* C12: "Generar Rastrero In" completes for any non-empty filtered movement
\* set and places each aggregated key in at most one table: R_Nivel_Bajo
\* when the last character of its destination is a digit <= 2, R_Nivel_Alto
\* when it is a digit >= 3, neither when it is not a digit, without
\* aborting the generation.
C12_ParticionPorNivel ==
    /\ ui.gen # "error"
    /\ ui.gen = "ok" =>
          \A r \in Range(state_in["T_Cruce_In"]) :
              LET c == UltimoCaracter(r.ubic)
                  bajo == Cardinality(FilasDe("R_Nivel_Bajo", r.ubic, r.prod))
                  alto == Cardinality(FilasDe("R_Nivel_Alto", r.ubic, r.prod))
              IN  /\ c \in {"0", "1", "2"} => (bajo = 1 /\ alto = 0)
                  /\ c \in {"3", "4", "5", "6", "7", "8", "9"} => (bajo = 0 /\ alto = 1)
                  /\ c \notin {"0", "1", "2", "3", "4", "5", "6", "7", "8", "9"}
                        => (bajo = 0 /\ alto = 0)

(***************************************************************************)
(* The aggregation of a stock table on its own: the groupby of df_stock    *)
(* (lines 531-534) and the groupby of preparar_stock (lines 111-119),      *)
(* applied to a table, to a permutation of it, and to their own result.    *)
(***************************************************************************)
\* the seven group columns of preparar_stock (lines 113-114)
Grp(r) ==
    [concat_u_a |-> r.concat_u_a, ubic |-> r.ubic, art |-> r.art,
     factor |-> r.factor, um |-> r.um, nivel |-> r.nivel, lote |-> r.lote]

\* a < b for two group keys: column by column, Factor as a number
GrpLt(a, b) ==
    IF <<a.concat_u_a, a.ubic, a.art>> # <<b.concat_u_a, b.ubic, b.art>>
    THEN TupleLt(<<a.concat_u_a, a.ubic, a.art>>, <<b.concat_u_a, b.ubic, b.art>>)
    ELSE IF a.factor # b.factor THEN FLess(a.factor, b.factor)
    ELSE TupleLt(<<a.um, a.nivel, a.lote>>, <<b.um, b.nivel, b.lote>>)

RECURSIVE SortedGrupos(_)
SortedGrupos(S) ==
    IF S = {} THEN <<>>
    ELSE LET m == CHOOSE x \in S : \A y \in S : x = y \/ GrpLt(x, y)
         IN  <<m>> \o SortedGrupos(S \ {m})

CajasDe(r) == r.cajas

\* lines 115-116: df[keep].groupby(grp).agg(sum, sum)
AgruparPrepararStock(df) ==
    LET keys == SortedGrupos({Grp(r) : r \in Range(df)})
        row(key) ==
            LET Mask(r) == Grp(r) = key
                g == Filas(df, Mask)
            IN  [concat_u_a |-> key.concat_u_a, ubic |-> key.ubic, art |-> key.art,
                 factor |-> key.factor, um |-> key.um, nivel |-> key.nivel,
                 lote |-> key.lote,
                 cant |-> FSum(Col(g, CantDe)), cajas |-> FSum(Col(g, CajasDe))]
    IN  [i \in 1..Len(keys) |-> row(keys[i])]

MaxAggRows == 3

\* stock rows as read from the file of Rastrero Out; the first two share
\* their Concat2 with different locations and articles
AggUniverse ==
    << [ubic |-> "B4.RE.A.C06.01", art |-> "1A", cant |-> Num(36), huella |-> Str("C36U")],
       [ubic |-> "B4.RE.A.C06.011", art |-> "A", cant |-> Num(72), huella |-> Str("C36U")],
       [ubic |-> "B4.RE.A.C06.01", art |-> "1A", cant |-> Num(18), huella |-> Str("C36U")],
       [ubic |-> "B4.RE.A.C11.05", art |-> "B2", cant |-> Num(0), huella |-> NA] >>

\* rows of df[keep] in preparar_stock; the first two differ in their lot
PrepUniverse ==
    << [concat_u_a |-> "B4.RE.A.C06.01A1", ubic |-> "B4.RE.A.C06.01", art |-> "A1",
        factor |-> Num(36), um |-> "CAJ", nivel |-> "BAJO", lote |-> "L1",
        cant |-> Num(72), cajas |-> Num(2)],
       [concat_u_a |-> "B4.RE.A.C06.01A1", ubic |-> "B4.RE.A.C06.01", art |-> "A1",
        factor |-> Num(36), um |-> "CAJ", nivel |-> "BAJO", lote |-> "L2",
        cant |-> Num(36), cajas |-> Num(1)],
       [concat_u_a |-> "B4.RE.A.C06.01A1", ubic |-> "B4.RE.A.C06.01", art |-> "A1",
        factor |-> Num(36), um |-> "CAJ", nivel |-> "BAJO", lote |-> "L1",
        cant |-> Num(18), cajas |-> Fin(1, 2)],
       [concat_u_a |-> "B4.RE.A.C11.05B2", ubic |-> "B4.RE.A.C11.05", art |-> "B2",
        factor |-> Num(1), um |-> "CAJ", nivel |-> "ALTO", lote |-> "nan",
        cant |-> Num(0), cajas |-> Num(0)] >>

\* the one-to-one maps of 1..n onto itself
Permutaciones(n) ==
    {f \in [1..n -> 1..n] : \A i, j \in 1..n : f[i] = f[j] => i = j}

\* the tables of at most max rows of a universe, in every order
Ordenes(universe, max) ==
    UNION {{[i \in 1..Len(c) |-> c[f[i]]] : f \in Permutaciones(Len(c))} :
              c \in Contents(universe, max)}

Agrupar(via, t) ==
    IF via = "out" THEN AgruparStockOut(t) ELSE AgruparPrepararStock(t)

\* the groupby alone, on a table that already has its computed columns
Reagrupar(via, t) ==
    IF via = "out" THEN AgruparPorConcat2(t) ELSE AgruparPrepararStock(t)

InitAgregador ==
    /\ agg \in {[AggIdle EXCEPT !.via = "out", !.rows = t, !.fase = "arg"] :
                    t \in Ordenes(AggUniverse, MaxAggRows)}
               \cup
               {[AggIdle EXCEPT !.via = "preparar", !.rows = t, !.fase = "arg"] :
                    t \in Ordenes(PrepUniverse, MaxAggRows)}
    /\ cls = ClsIdle /\ conv = ConvIdle /\ mov = MovIdle
    /\ state_in = EmptyDict /\ ss_in = EmptyDict
    /\ state_out = EmptyDict /\ ss_out = EmptyDict
    /\ ui = UiIdle

\* the table is aggregated
AgruparTabla ==
    /\ agg.fase = "arg"
    /\ agg' = [agg EXCEPT !.t1 = Agrupar(agg.via, agg.rows), !.fase = "agrupado"]
    /\ UNCHANGED <<cls, conv, mov, state_in, ss_in, state_out, ss_out, ui>>

\* the same rows, in another order, are aggregated
AgruparPermutacion ==
    /\ agg.fase = "agrupado"
    /\ \E f \in Permutaciones(Len(agg.rows)) :
          LET perm == [i \in 1..Len(agg.rows) |-> agg.rows[f[i]]]
          IN  agg' = [agg EXCEPT !.perm = perm, !.t2 = Agrupar(agg.via, perm),
                                 !.fase = "permutado"]
    /\ UNCHANGED <<cls, conv, mov, state_in, ss_in, state_out, ss_out, ui>>

\* the aggregated table is aggregated again by the same key
AgruparDeNuevo ==
    /\ agg.fase = "permutado"
    /\ agg' = [agg EXCEPT !.t3 = Reagrupar(agg.via, agg.t1), !.fase = "reagrupado"]
    /\ UNCHANGED <<cls, conv, mov, state_in, ss_in, state_out, ss_out, ui>>

NextAgregador == AgruparTabla \/ AgruparPermutacion \/ AgruparDeNuevo

SpecAgregador == InitAgregador /\ [][NextAgregador]_vars

(***************************************************************************)
(* Properties of the aggregation.                                          *)
(***************************************************************************)
\* the composite key of a row, read from the file or aggregated
ClaveDe(r) ==
    IF "concat2" \in DOMAIN r THEN r.concat2
    ELSE IF "concat_u_a" \in DOMAIN r THEN r.concat_u_a
    ELSE r.ubic \o r.art

IndicesDe(t, clave) == {i \in 1..Len(t) : ClaveDe(t[i]) = clave}

\* C13: two permutations of the same stock rows aggregate to the same keys
\* and, for each key, the same summed units, summed boxes, location and
\* article; aggregating the aggregated table again leaves it unchanged; no
\* quantity of an input row is lost and each key is exactly one group.
C13_AgregadorConmutativoIdempotente ==
    agg.fase = "reagrupado" =>
        /\ {ClaveDe(r) : r \in Range(agg.t1)} = {ClaveDe(r) : r \in Range(agg.t2)}
        /\ \A k \in {ClaveDe(r) : r \in Range(agg.t1)} :
              {agg.t1[i] : i \in IndicesDe(agg.t1, k)}
                  = {agg.t2[i] : i \in IndicesDe(agg.t2, k)}
        /\ agg.t3 = agg.t1
        /\ \A k \in {ClaveDe(r) : r \in Range(agg.rows)} :
              SumOver(IndicesDe(agg.t1, k), agg.t1, "cant")
                  = SumOver(IndicesDe(agg.rows, k), agg.rows, "cant")
        /\ \A k \in {ClaveDe(r) : r \in Range(agg.rows)} :
              Cardinality(IndicesDe(agg.t1, k)) = 1

(***************************************************************************)
(* Properties of the picking selection of Rastrero Out.                    *)
(***************************************************************************)
\* the picking rows of the pickings selected now, by their positions
FilasSeleccionadas ==
    {i \in 1..Len(state_out["df_asig_raw"]) :
        state_out["df_asig_raw"][i].pick \in picks(ss_out)}

\* C14: whenever "Generar Rastrero Out" is clicked, the totals by composite
\* key it joins with the stock are the totals of exactly the picking rows
\* whose picking is in the selection current at the click; an empty
\* selection never gives a report built from an earlier selection.
C14_SeleccionVigente ==
    ui.gen \in {"ok", "error"} =>
        LET df == state_out["df_asig_raw"]
            asign == state_out["asign"]
        IN  /\ {a.concat1 : a \in Range(asign)}
                  = {df[i].concat1 : i \in FilasSeleccionadas}
            /\ \A a \in Range(asign) :
                  a.cajas_x = SumOver({i \in FilasSeleccionadas :
                                          df[i].concat1 = a.concat1}, df, "cajas_x")
            /\ picks(ss_out) = {} => ui.gen # "ok"

\* the zone tables a generation builds from the rows of a set of pickings
TablasDePickings(sel) ==
    Tablas(Merge(Asign(AsigFiltrada(state_out["df_asig_raw"], sel)),
                 state_out["df_stock"]))

\* C15: in every workbook offered for download the picking numbers written
\* down column L are exactly the pickings whose rows were aggregated into
\* the zone tables of that workbook.
C15_ExportConsistente ==
    ui.descarga.ofrecida =>
        ui.descarga.hojas = TablasDePickings(Range(ui.descarga.picks))

(***************************************************************************)
(* The whole session: the menu of the sidebar (lines 643-675) chooses the  *)
(* page, and every interaction runs the function of the page shown.  The   *)
(* widgets of a page that is not drawn lose their values, so a run of one  *)
(* page leaves the selections and the uploaders of the other page empty.   *)
(* A file may be put in an uploader whose table is already stored.         *)
(***************************************************************************)
SesionMovFiles ==
    {File(MovFileName, Pick(MovUniverse, I, 1)) : I \in {{1}, {3}}}

SesionStockInFiles ==
    {File("Stock.xlsx", Pick(StockInUniverse, I, 1)) : I \in {{1}, {3}}}

SesionAsigFiles ==
    {AsigFile(headers, Pick(AsigUniverse, I, 1)) : I \in {{1}, {2, 6}}}

SesionStockOutFiles ==
    {File("Stock.xlsx", Pick(StockOutUniverse, I, 1)) : I \in {{1}, {3}}}

\* the session after a run of rastrero_in() (line 673)
SesionIn(mov_file, stock_file, gen_clicked) ==
    LET r == RastreroIn(state_in, ss_in, mov_file, stock_file, NoFile, gen_clicked)
    IN  /\ state_in' = r.st
        /\ ss_in' = r.ss
        /\ ui' = r.ui
        /\ ss_out' = EmptyDict
        /\ UNCHANGED <<cls, conv, mov, state_out, agg>>

\* the session after a run of rastrero_out() (line 675)
SesionOut(ss0, gen_clicked) ==
    LET r == RastreroOut(state_out, ss0, gen_clicked)
    IN  /\ state_out' = r.st
        /\ ss_out' = r.ss
        /\ ui' = r.ui
        /\ ss_in' = EmptyDict
        /\ UNCHANGED <<cls, conv, mov, state_in, agg>>

\* the user chooses "Rastrero In" in the menu
SesionIrARastreroIn ==
    /\ ui.modulo # "in"
    /\ SesionIn(NoFile, NoFile, FALSE)

\* the user chooses "Rastrero Out" in the menu
SesionIrARastreroOut ==
    /\ ui.modulo # "out"
    /\ SesionOut(ss_out, FALSE)

SesionSubirMovimientos ==
    /\ ui.modulo = "in"
    /\ \E mov_file \in SesionMovFiles : SesionIn(mov_file, NoFile, FALSE)

SesionSubirStockIn ==
    /\ ui.modulo = "in"
    /\ \E stock_file \in SesionStockInFiles : SesionIn(NoFile, stock_file, FALSE)

SesionGenerarIn ==
    /\ ui.modulo = "in"
    /\ Has(state_in, "T_Stock_I") /\ Has(state_in, "T_Mov_Internos")
    /\ SesionIn(NoFile, NoFile, TRUE)

SesionSubirAsignacion ==
    /\ ui.modulo = "out"
    /\ \E asig_file \in SesionAsigFiles :
          SesionOut(Put(ss_out, "asig_out", asig_file), FALSE)

SesionSubirStockOut ==
    /\ ui.modulo = "out"
    /\ \E stock_file \in SesionStockOutFiles :
          SesionOut(Put(ss_out, "stock_out", stock_file), FALSE)

SesionGenerarOut ==
    /\ ui.modulo = "out"
    /\ Has(state_out, "asign") /\ Has(state_out, "df_stock")
    /\ SesionOut(ss_out, TRUE)

InitSesion ==
    /\ state_in = EmptyDict /\ ss_in = EmptyDict
    /\ state_out = EmptyDict /\ ss_out = EmptyDict
    /\ ui = UiIdle
    /\ cls = ClsIdle /\ conv = ConvIdle /\ mov = MovIdle /\ agg = AggIdle

NextSesion ==
    \/ SesionIrARastreroIn \/ SesionIrARastreroOut
    \/ SesionSubirMovimientos \/ SesionSubirStockIn \/ SesionGenerarIn
    \/ SesionSubirAsignacion \/ SesionSubirStockOut \/ SesionGenerarOut

SpecSesion == InitSesion /\ [][NextSesion]_vars

(***************************************************************************)
(* Properties of the session.                                              *)
(***************************************************************************)
\* a stored table of a dictionary is still there, unchanged, after the step
Conservada(antes, despues, key) ==
    Has(antes, key) => (Has(despues, key) /\ despues[key] = antes[key])

C16_Paso ==
    /\ Conservada(state_in, state_in', "T_Mov_Internos")
    /\ Conservada(state_in, state_in', "T_Stock_I")
    /\ Conservada(state_out, state_out', "df_asig_raw")
    /\ Conservada(state_out, state_out', "df_stock")
    /\ (ui'.modulo = "in" /\ ui'.gen = "ok") =>
          LET cruce == Cruce(MovFiltrados(state_in["T_Mov_Internos"], ss_in'),
                             state_in["T_Stock_I"])
          IN  /\ state_in'["R_Nivel_Bajo"] = build_r(cruce, "Bajo")
              /\ state_in'["R_Nivel_Alto"] = build_r(cruce, "Alto")
    /\ (ui'.modulo = "out" /\ ui'.gen = "ok" /\ picks(ss_out') # {}) =>
          state_out'["ras_out"] =
              Tablas(Merge(Asign(AsigFiltrada(state_out["df_asig_raw"], picks(ss_out'))),
                           state_out["df_stock"]))

\* C16: once a movements, inbound stock, picking or outbound stock table is
\* stored, no later run changes it, even when another file is put in the
\* same uploader; the reports generated afterwards are computed from the
\* tables of the first accepted files.
C16_TablasDeUnaSolaEscritura == [][C16_Paso]_vars

\* a report generated from the stored tables while the uploaders of the
\* picking and of the stock hold other files than the ones stored, in a
\* session whose inbound tables are stored too
C16_Witness ==
    /\ ui.modulo = "out" /\ ui.gen = "ok"
    /\ Has(ss_out, "asig_out") /\ Has(ss_out, "stock_out")
    /\ ProcesarAsignacion(ss_out["asig_out"].rows) # state_out["df_asig_raw"]
    /\ AgruparStockOut(ss_out["stock_out"].rows) # state_out["df_stock"]
    /\ Has(state_in, "T_Mov_Internos") /\ Has(state_in, "T_Stock_I")
    /\ Has(state_in, "R_Nivel_Bajo")

====
